---------------------------- MODULE Spec2Model ----------------------------
(***************************************************************************)
(* Model of streamlit_app.py: the Stable Diffusion metadata viewer.        *)
(*                                                                         *)
(* A text (Python str) is a sequence of one-character strings, so that     *)
(* slicing, strip(), lower(), title() and the regular expressions are      *)
(* modelled by what they do to the characters.  A dict is a sequence of    *)
(* records [k |-> key, v |-> value] in insertion order.                    *)
(***************************************************************************)
EXTENDS Integers, Sequences, FiniteSets

VARIABLES
    pc,            \* position of the running call
    raw_text,      \* parse_sd_text: its argument
    label_data,    \* parse_sd_text: local data after line 65
    result,        \* parse_sd_text: the dict it returns
    img,           \* extract_sd_meta: what Image.open and piexif give for bdata
    pillow_str,    \* extract_sd_meta: local pillow_str
    exif_str,      \* extract_sd_meta: local exif_str
    exif_read,     \* whether piexif.load has read the image's EXIF block (line 77)
    meta_info,     \* extract_sd_meta: the dict it builds and returns
    display_dict   \* main: the ordered table

vars == <<pc, raw_text, label_data, result, img, pillow_str, exif_str, exif_read,
          meta_info, display_dict>>

-----------------------------------------------------------------------------
(* Characters and str methods *)

\* the characters str.strip() and the pattern \s take as whitespace
Ws == {" ", "\n"}

UpperAlpha == <<"A","B","C","D","E","F","G","H","I","J","K","L","M",
                "N","O","P","Q","R","S","T","U","V","W","X","Y","Z">>
LowerAlpha == <<"a","b","c","d","e","f","g","h","i","j","k","l","m",
                "n","o","p","q","r","s","t","u","v","w","x","y","z">>

UpperSet == {UpperAlpha[i] : i \in 1..26}
LowerSet == {LowerAlpha[i] : i \in 1..26}

ToLowerTab == [c \in UpperSet |-> LowerAlpha[CHOOSE i \in 1..26 : UpperAlpha[i] = c]]
ToUpperTab == [c \in LowerSet |-> UpperAlpha[CHOOSE i \in 1..26 : LowerAlpha[i] = c]]

chr_lower(c) == IF c \in UpperSet THEN ToLowerTab[c] ELSE c
chr_upper(c) == IF c \in LowerSet THEN ToUpperTab[c] ELSE c
is_cased(c) == c \in UpperSet \/ c \in LowerSet

\* str.lower()
str_lower(s) == [i \in 1..Len(s) |-> chr_lower(s[i])]

\* str.title(): a cased character is upper-cased after an uncased one (or
\* at the start) and lower-cased after a cased one
str_title(s) ==
    [i \in 1..Len(s) |->
        IF i > 1 /\ is_cased(s[i-1]) THEN chr_lower(s[i]) ELSE chr_upper(s[i])]

RECURSIVE lstrip_index(_, _)
lstrip_index(s, i) ==
    IF i <= Len(s) /\ s[i] \in Ws THEN lstrip_index(s, i + 1) ELSE i

RECURSIVE rstrip_index(_, _)
rstrip_index(s, j) ==
    IF j >= 1 /\ s[j] \in Ws THEN rstrip_index(s, j - 1) ELSE j

\* str.strip()
str_strip(s) == SubSeq(s, lstrip_index(s, 1), rstrip_index(s, Len(s)))

\* s[i:] and s[:i] with Python's 0-based index i
slice_from(s, i) == SubSeq(s, i + 1, Len(s))
slice_to(s, i) == SubSeq(s, 1, i)

-----------------------------------------------------------------------------
(* dict, in insertion order *)

dict_keys(d) == [i \in 1..Len(d) |-> d[i].k]
dict_has(d, key) == \E i \in 1..Len(d) : d[i].k = key
dict_get(d, key) == d[CHOOSE i \in 1..Len(d) : d[i].k = key].v

\* variant of dict_set: a key stored again moves to the end
dict_set_moves(d, key, value) ==
    Append(SelectSeq(d, LAMBDA e : e.k # key), [k |-> key, v |-> value])

\* d[key] = value: an existing key keeps its place
dict_set(d, key, value) ==
    IF dict_has(d, key)
    THEN [i \in 1..Len(d) |-> IF d[i].k = key THEN [k |-> key, v |-> value] ELSE d[i]]
    ELSE Append(d, [k |-> key, v |-> value])

RECURSIVE dict_update(_, _)
dict_update(d, other) ==
    IF other = <<>> THEN d
    ELSE dict_update(dict_set(d, Head(other).k, Head(other).v), Tail(other))

\* d.pop(key) leaves the other entries in order
dict_pop(d, key) == SelectSeq(d, LAMBDA e : e.k # key)

-----------------------------------------------------------------------------
(* String constants of the program *)

LABELS == <<
    <<"P", "r", "o", "m", "p", "t", ":">>,
    <<"N", "e", "g", "a", "t", "i", "v", "e", " ", "p", "r", "o", "m", "p", "t", ":">>,
    <<"S", "t", "e", "p", "s", ":">>,
    <<"S", "a", "m", "p", "l", "e", "r", ":">>,
    <<"C", "F", "G", " ", "s", "c", "a", "l", "e", ":">>,
    <<"S", "e", "e", "d", ":">>,
    <<"S", "i", "z", "e", ":">>,
    <<"M", "o", "d", "e", "l", " ", "h", "a", "s", "h", ":">>,
    <<"M", "o", "d", "e", "l", ":">>,
    <<"V", "e", "r", "s", "i", "o", "n", ":">> >>

\* the alternatives of group "label" of RGX_LABEL, in the pattern's order
RGX_LABEL_label == <<
    <<"P", "r", "o", "m", "p", "t">>,
    <<"N", "e", "g", "a", "t", "i", "v", "e", " ", "p", "r", "o", "m", "p", "t">>,
    <<"S", "t", "e", "p", "s">>,
    <<"S", "a", "m", "p", "l", "e", "r">>,
    <<"C", "F", "G", " ", "s", "c", "a", "l", "e">>,
    <<"S", "e", "e", "d">>,
    <<"S", "i", "z", "e">>,
    <<"M", "o", "d", "e", "l", " ", "h", "a", "s", "h">>,
    <<"M", "o", "d", "e", "l">>,
    <<"V", "e", "r", "s", "i", "o", "n">> >>

\* the alternatives of the lookahead of RGX_LABEL, "$" apart
RGX_LABEL_lookahead == <<
    <<"P", "r", "o", "m", "p", "t", ":">>,
    <<"N", "e", "g", "a", "t", "i", "v", "e", " ", "p", "r", "o", "m", "p", "t", ":">>,
    <<"S", "t", "e", "p", "s", ":">>,
    <<"S", "a", "m", "p", "l", "e", "r", ":">>,
    <<"C", "F", "G", " ", "s", "c", "a", "l", "e", ":">>,
    <<"S", "e", "e", "d", ":">>,
    <<"S", "i", "z", "e", ":">>,
    <<"M", "o", "d", "e", "l", " ", "h", "a", "s", "h", ":">>,
    <<"M", "o", "d", "e", "l">>,
    <<"V", "e", "r", "s", "i", "o", "n">> >>

K_Prompt == <<"P", "r", "o", "m", "p", "t">>
K_NegativePrompt == <<"N", "e", "g", "a", "t", "i", "v", "e", " ", "P", "r", "o", "m", "p", "t">>
K_Steps == <<"S", "t", "e", "p", "s">>
K_Sampler == <<"S", "a", "m", "p", "l", "e", "r">>
K_CFGScale == <<"C", "F", "G", " ", "S", "c", "a", "l", "e">>
K_Seed == <<"S", "e", "e", "d">>
K_Size == <<"S", "i", "z", "e">>
K_ModelHash == <<"M", "o", "d", "e", "l", " ", "h", "a", "s", "h">>
K_Model == <<"M", "o", "d", "e", "l">>
K_Version == <<"V", "e", "r", "s", "i", "o", "n">>
K_RawSnippet == <<"R", "a", "w", "S", "n", "i", "p", "p", "e", "t">>
K_foundIn == <<"f", "o", "u", "n", "d", "I", "n">>
K_format == <<"f", "o", "r", "m", "a", "t">>
K_error == <<"e", "r", "r", "o", "r">>

L_cfg_scale == <<"c", "f", "g", " ", "s", "c", "a", "l", "e">>
L_negative_prompt == <<"n", "e", "g", "a", "t", "i", "v", "e", " ", "p", "r", "o", "m", "p", "t">>
L_model_hash == <<"m", "o", "d", "e", "l", " ", "h", "a", "s", "h">>

-----------------------------------------------------------------------------
(* Regular expressions.  re.IGNORECASE compares lower-cased characters;   *)
(* positions are 1-based here, so Python's position p is p + 1.           *)

\* pattern pat (lower-cased) matches the lower-cased text lt at position i
re_literal_at(lt, i, pat) ==
    /\ i + Len(pat) - 1 <= Len(lt)
    /\ \A j \in 1..Len(pat) : lt[i + j - 1] = pat[j]

LowLabelColon == [a \in 1..Len(RGX_LABEL_label) |-> str_lower(RGX_LABEL_label[a] \o <<":">>)]
LowLookahead == [a \in 1..Len(RGX_LABEL_lookahead) |-> str_lower(RGX_LABEL_lookahead[a])]
LowNextLabel == [a \in 1..Len(Tail(LABELS)) |-> str_lower(Tail(LABELS)[a] \o <<" ">>)]

RECURSIVE first_alt(_, _, _, _)
first_alt(lt, i, pats, a) ==
    IF a > Len(pats) THEN 0
    ELSE IF re_literal_at(lt, i, pats[a]) THEN a
    ELSE first_alt(lt, i, pats, a + 1)

\* "(?P<label>(?:Prompt|...|Version)):" at position i: the alternative that
\* matches, tried in the pattern's order, or 0
rgx_label_at(lt, i) == first_alt(lt, i, LowLabelColon, 1)

\* "$" without re.MULTILINE: the end, or just before a final newline
re_dollar(t, q) == q = Len(t) + 1 \/ (q = Len(t) /\ t[q] = "\n")

\* variant of rgx_lookahead: every alternative needs its colon
rgx_lookahead_colon(t, lt, e) ==
    \E q \in e..(Len(t) + 1) :
        /\ \A j \in e..(q - 1) : t[j] \in Ws
        /\ \/ first_alt(lt, q, LowLabelColon, 1) # 0
           \/ re_dollar(t, q)

\* the lookahead (?=\s*(?:Prompt:|...|Model hash:|Model|Version|$)) at e
rgx_lookahead(t, lt, e) ==
    \E q \in e..(Len(t) + 1) :
        /\ \A j \in e..(q - 1) : t[j] \in Ws
        /\ \/ first_alt(lt, q, LowLookahead, 1) # 0
           \/ re_dollar(t, q)

\* "(?P<value>.*?)" under re.DOTALL: the shortest run from vs after which
\* the lookahead holds; the result is the position after the value
RECURSIVE rgx_value_end(_, _, _)
rgx_value_end(t, lt, e) ==
    IF e > Len(t) \/ rgx_lookahead(t, lt, e) THEN e ELSE rgx_value_end(t, lt, e + 1)

\* ":\s*" is greedy and never gives back: what follows it can always match
RECURSIVE re_skip_ws(_, _)
re_skip_ws(t, j) ==
    IF j <= Len(t) /\ t[j] \in Ws THEN re_skip_ws(t, j + 1) ELSE j

\* RGX_LABEL.finditer(t) from position pos: the matches left to right, each
\* [start, alt, vstart, vend] with label t[start .. colon-1] and value
\* t[vstart .. vend-1]; the next search starts where the match ended
RECURSIVE RGX_LABEL_finditer(_, _, _)
RGX_LABEL_finditer(t, lt, pos) ==
    IF pos > Len(t) THEN <<>>
    ELSE LET a == rgx_label_at(lt, pos) IN
         IF a = 0 THEN RGX_LABEL_finditer(t, lt, pos + 1)
         ELSE LET colon == pos + Len(RGX_LABEL_label[a])
                  vs == re_skip_ws(t, colon + 1)
                  ve == rgx_value_end(t, lt, vs)
              IN <<[start |-> pos, alt |-> a, colon |-> colon, vstart |-> vs, vend |-> ve]>>
                 \o RGX_LABEL_finditer(t, lt, ve)

RGX_LABEL(t) == RGX_LABEL_finditer(t, str_lower(t), 1)

m_label(t, m) == SubSeq(t, m.start, m.colon - 1)
m_value(t, m) == SubSeq(t, m.vstart, m.vend - 1)

-----------------------------------------------------------------------------
(* The parser *)

\* the key parse_labeled stores a match under
label_key(label_raw) ==
    LET key_lower == str_lower(label_raw) IN
    IF key_lower = L_cfg_scale THEN K_CFGScale
    ELSE IF key_lower = L_negative_prompt THEN K_NegativePrompt
    ELSE IF key_lower = L_model_hash THEN K_ModelHash
    ELSE str_title(label_raw)

RECURSIVE parse_labeled_loop(_, _, _)
parse_labeled_loop(t, ms, results) ==
    IF ms = <<>> THEN results
    ELSE LET label_raw == str_strip(m_label(t, Head(ms)))
             value_raw == str_strip(m_value(t, Head(ms)))
         IN parse_labeled_loop(t, Tail(ms), dict_set(results, label_key(label_raw), value_raw))

parse_labeled(text) == parse_labeled_loop(text, RGX_LABEL(text), <<>>)

\* re.search(pattern_next_label, raw_text, re.IGNORECASE): the leftmost
\* position where one of LABELS[1:] and a space follow, or 0
RECURSIVE search_next_label(_, _)
search_next_label(lt, i) ==
    IF i > Len(lt) THEN 0
    ELSE IF first_alt(lt, i, LowNextLabel, 1) # 0 THEN i
    ELSE search_next_label(lt, i + 1)

parse_no_prompt_label(rawtext) ==
    LET match == search_next_label(str_lower(rawtext), 1) IN
    IF match = 0 THEN <<[k |-> K_Prompt, v |-> str_strip(rawtext)]>>
    ELSE LET end_index == match - 1
             prompt_text == str_strip(slice_to(rawtext, end_index))
             rest_text == str_strip(slice_from(rawtext, end_index))
             d == IF prompt_text # <<>> THEN <<[k |-> K_Prompt, v |-> prompt_text]>> ELSE <<>>
         IN dict_update(d, parse_labeled(rest_text))

\* line 66: "Prompt" not in [k.lower() for k in data.keys()]
no_prompt_key(data) ==
    \A i \in 1..Len(data) : str_lower(data[i].k) # K_Prompt

\* variant of parse_sd_text: RawSnippet holds the stripped text
parse_sd_text_stripped(rawtext) ==
    LET data == parse_labeled(rawtext)
        data2 == IF no_prompt_key(data) THEN parse_no_prompt_label(rawtext) ELSE data
    IN dict_set(data2, K_RawSnippet, str_strip(rawtext))

parse_sd_text(rawtext) ==
    LET data == parse_labeled(rawtext)
        data2 == IF no_prompt_key(data) THEN parse_no_prompt_label(rawtext) ELSE data
    IN dict_set(data2, K_RawSnippet, rawtext)

-----------------------------------------------------------------------------
(* Input texts of the parser: runs of at most MaxPieces pieces *)

MaxPieces == 4

Pieces == <<
    <<"P", "r", "o", "m", "p", "t", ":">>,
    <<"S", "t", "e", "p", "s", ":">>,
    <<"s", "e", "e", "d", ":">>,
    <<"M", "o", "d", "e", "l">>,
    <<" ">>,
    <<"\n">>,
    <<"a">> >>

RECURSIVE concat(_, _)
concat(ps, i) == IF i > Len(ps) THEN <<>> ELSE Pieces[ps[i]] \o concat(ps, i + 1)

PieceRuns == UNION {[1..n -> 1..Len(Pieces)] : n \in 0..MaxPieces}

ExampleTexts == {
    <<"P","r","o","m","p","t",":"," ","a"," ","c","a","t","\n",
      "N","e","g","a","t","i","v","e"," ","p","r","o","m","p","t",":"," ","b","l","u","r","r","y","\n",
      "S","t","e","p","s",":"," ","2","0">>,
    <<"m","a","s","t","e","r","p","i","e","c","e",","," ","1","g","i","r","l"," ",
      "S","t","e","p","s",":"," ","2","0"," ","S","e","e","d",":"," ","5">>,
    <<"j","u","s","t"," ","s","o","m","e"," ","w","o","r","d","s">>,
    <<"a"," ","S","t","e","p","s",":"," ","1"," ","P","r","o","m","p","t",":"," ","b">> }

Texts == {concat(ps, 1) : ps \in PieceRuns} \cup ExampleTexts

-----------------------------------------------------------------------------
(* parse_sd_text applied to one text *)

NoImg == [decodes |-> FALSE]

InitParse ==
    /\ pc = "text"
    /\ raw_text \in Texts
    /\ label_data = <<>>
    /\ result = <<>>
    /\ img = NoImg
    /\ pillow_str = <<>>
    /\ exif_str = <<>>
    /\ exif_read = FALSE
    /\ meta_info = <<>>
    /\ display_dict = <<>>

ParseSdText ==
    /\ pc = "text"
    /\ label_data' = parse_labeled(raw_text)
    /\ result' = parse_sd_text(raw_text)
    /\ pc' = "parsed"
    /\ UNCHANGED <<raw_text, img, pillow_str, exif_str, exif_read, meta_info, display_dict>>

NextParse == ParseSdText

SpecParse == InitParse /\ [][NextParse]_vars

-----------------------------------------------------------------------------
(* The image: what Pillow and piexif report for the uploaded bytes *)

K_parameters == <<"p", "a", "r", "a", "m", "e", "t", "e", "r", "s">>
K_exif == <<"e", "x", "i", "f">>

F_PNG == <<"P", "N", "G">>
F_WEBP == <<"W", "E", "B", "P">>
F_JPEG == <<"J", "P", "E", "G">>

FOUND_Pillow == <<"P", "i", "l", "l", "o", "w", " ", "i", "n", "f", "o", "/", "t", "e", "x", "t">>
FOUND_Exif == <<"E", "x", "i", "f", " ", "U", "s", "e", "r", "C", "o", "m", "m", "e", "n", "t">>
FOUND_Fallback == <<"F", "a", "l", "l", "b", "a", "c", "k">>

\* bytes that start no UTF-8 sequence
InvalidBytes == {"0xFF", "0x89"}

\* bytes.decode("utf-8", errors="ignore"): undecodable bytes are dropped
bytes_decode_ignore(b) == SelectSeq(b, LAMBDA x : x \notin InvalidBytes)

fallback_search(bdata) == bytes_decode_ignore(bdata)

\* the outcome of a call: a value, or an exception
Return(x) == [raised |-> FALSE, value |-> x]
Raise == [raised |-> TRUE, value |-> <<>>]

\* piexif.load(img.info["exif"]), then .get("Exif", {}).get(UserComment, None)
piexif_load_usercomment(blob) ==
    IF blob.load_ok THEN Return(blob.uc) ELSE Raise

\* "if uc:": None, b"" and 0 are false
truthy(uc) == uc.kind \notin {"none", "empty"}

\* piexif.helper.UserComment.load(uc): the comment of a well-tagged value
UserComment_load(uc) ==
    IF uc.kind = "tagged" THEN Return(uc.comment) ELSE Raise

\* uc.decode("utf-8", errors="ignore"): uc may be no bytes object at all
uc_decode(uc) ==
    IF uc.kind = "not_bytes" THEN Raise ELSE Return(bytes_decode_ignore(uc.bytes))

\* try: body  except: handler
try_except(body, handler) == IF body.raised THEN handler ELSE body

\* variant of extract_exif_usercomment: no outer try/except
extract_exif_usercomment_unguarded(image) ==
    IF dict_has(image.info, K_exif)
    THEN LET loaded == piexif_load_usercomment(dict_get(image.info, K_exif)) IN
         IF loaded.raised THEN Raise
         ELSE IF truthy(loaded.value)
              THEN try_except(UserComment_load(loaded.value), uc_decode(loaded.value))
              ELSE Return(<<>>)
    ELSE Return(<<>>)

extract_exif_usercomment(image) ==
    IF dict_has(image.info, K_exif)
    THEN LET loaded == piexif_load_usercomment(dict_get(image.info, K_exif))
             inner ==
                 IF loaded.raised THEN Raise
                 ELSE IF truthy(loaded.value)
                      THEN try_except(UserComment_load(loaded.value), uc_decode(loaded.value))
                      ELSE Return(<<>>)
         IN try_except(inner, Return(<<>>))
    ELSE Return(<<>>)

\* lines 93-101: details.get("parameters", "")
details_parameters(image) ==
    LET d1 == IF image.format \in {F_PNG, F_WEBP} THEN dict_update(<<>>, image.info) ELSE <<>>
        d2 == IF image.format = F_PNG THEN dict_update(d1, image.text) ELSE d1
        d3 == IF image.format = F_WEBP /\ image.has_text THEN dict_update(d2, image.text) ELSE d2
    IN IF dict_has(d3, K_parameters) THEN dict_get(d3, K_parameters) ELSE <<>>

\* variant of select_source: the EXIF comment is preferred
select_source_exif_first(pillow, exif, bdata) ==
    IF exif # <<>> THEN [foundIn |-> FOUND_Exif, text |-> exif]
    ELSE IF pillow # <<>> THEN [foundIn |-> FOUND_Pillow, text |-> pillow]
    ELSE [foundIn |-> FOUND_Fallback, text |-> fallback_search(bdata)]

\* lines 106-118: the source and the text handed to parse_sd_text
select_source(pillow, exif, bdata) ==
    IF pillow # <<>> THEN [foundIn |-> FOUND_Pillow, text |-> pillow]
    ELSE IF exif # <<>> THEN [foundIn |-> FOUND_Exif, text |-> exif]
    ELSE [foundIn |-> FOUND_Fallback, text |-> fallback_search(bdata)]

T_info == <<"P", "r", "o", "m", "p", "t", ":", " ", "a">>
T_text == <<"b", " ", "S", "e", "e", "d", ":", " ", "1">>
T_comment == <<"c", " ", "S", "t", "e", "p", "s", ":", " ", "3">>
B_comment == <<"0xFF", "d">>
B_file == <<"0x89", "e", " ", "S", "t", "e", "p", "s", ":", " ", "2">>
E_open == <<"c", "a", "n", "n", "o", "t", " ", "i", "d", "e", "n", "t", "i", "f", "y", " ",
            "i", "m", "a", "g", "e", " ", "f", "i", "l", "e">>

UserComments == {
    [kind |-> "none"],
    [kind |-> "empty"],
    [kind |-> "tagged", comment |-> T_comment],
    [kind |-> "tagged", comment |-> <<>>],
    [kind |-> "untagged", bytes |-> B_comment],
    [kind |-> "untagged", bytes |-> <<"0xFF">>],
    [kind |-> "not_bytes"] }

ExifBlobs == {[load_ok |-> FALSE, uc |-> [kind |-> "none"]]}
             \cup {[load_ok |-> TRUE, uc |-> u] : u \in UserComments}

\* img.info: "parameters" (absent, empty or a text) and "exif" (absent or a blob)
Infos == {<<>>}
         \cup {<<[k |-> K_parameters, v |-> p]>> : p \in {<<>>, T_info}}
         \cup {<<[k |-> K_exif, v |-> x]>> : x \in ExifBlobs}
         \cup {<<[k |-> K_parameters, v |-> p], [k |-> K_exif, v |-> x]>> :
                 p \in {<<>>, T_info}, x \in ExifBlobs}

\* img.text
TextChunks == {<<>>, <<[k |-> K_parameters, v |-> T_text]>>}

\* Only a PNG or WEBP file carries text properties; a PngImageFile always
\* has the attribute text, a WebPImageFile may.
Images ==
    {[decodes |-> FALSE, bdata |-> b] : b \in {<<"0xFF">>, B_file}}
    \cup {[decodes |-> TRUE, format |-> F_PNG, info |-> i, has_text |-> TRUE,
           text |-> t, bdata |-> b] :
            i \in Infos, t \in TextChunks, b \in {<<"0xFF">>, B_file}}
    \cup {[decodes |-> TRUE, format |-> F_WEBP, info |-> i, has_text |-> h,
           text |-> t, bdata |-> b] :
            i \in Infos, h \in BOOLEAN, t \in TextChunks, b \in {<<"0xFF">>, B_file}}
    \cup {[decodes |-> TRUE, format |-> F_JPEG, info |-> i, has_text |-> FALSE,
           text |-> <<>>, bdata |-> b] :
            i \in {<<>>} \cup {<<[k |-> K_exif, v |-> x]>> : x \in ExifBlobs},
            b \in {<<"0xFF">>, B_file}}

-----------------------------------------------------------------------------
(* extract_sd_meta and main, for one uploaded file *)

Init ==
    /\ pc = "bdata"
    /\ img \in Images
    /\ raw_text = <<>>
    /\ label_data = <<>>
    /\ result = <<>>
    /\ pillow_str = <<>>
    /\ exif_str = <<>>
    /\ exif_read = FALSE
    /\ meta_info = <<>>
    /\ display_dict = <<>>

\* lines 90-101 and 119-120: Image.open, format, details, pillow_str
Open ==
    /\ pc = "bdata"
    /\ IF img.decodes
       THEN /\ meta_info' = dict_set(meta_info, K_format, img.format)
            /\ pillow_str' = details_parameters(img)
            /\ pc' = "collected"
       ELSE /\ meta_info' = dict_set(meta_info, K_error, E_open)
            /\ pillow_str' = pillow_str
            /\ pc' = "returned"
    /\ UNCHANGED <<raw_text, label_data, result, img, exif_str, exif_read, display_dict>>

\* lines 102-104
ReadExif ==
    /\ pc = "collected"
    /\ IF img.format = F_WEBP
       THEN LET r == extract_exif_usercomment(img) IN
            /\ exif_read' = dict_has(img.info, K_exif)
            /\ IF r.raised
               THEN /\ meta_info' = dict_set(meta_info, K_error, E_open)
                    /\ exif_str' = exif_str
                    /\ pc' = "returned"
               ELSE /\ meta_info' = meta_info
                    /\ exif_str' = r.value
                    /\ pc' = "located"
       ELSE /\ exif_read' = exif_read
            /\ exif_str' = <<>>
            /\ meta_info' = meta_info
            /\ pc' = "located"
    /\ UNCHANGED <<raw_text, label_data, result, img, pillow_str, display_dict>>

\* lines 106-118 and 121
Select ==
    /\ pc = "located"
    /\ LET s == select_source(pillow_str, exif_str, img.bdata)
           parsed == parse_sd_text(s.text)
       IN /\ raw_text' = s.text
          /\ label_data' = parse_labeled(s.text)
          /\ result' = parsed
          /\ meta_info' = dict_update(dict_set(meta_info, K_foundIn, s.foundIn), parsed)
    /\ pc' = "returned"
    /\ UNCHANGED <<img, pillow_str, exif_str, exif_read, display_dict>>

\* lines 172-173
ORDER == <<K_Prompt, K_NegativePrompt, K_Steps, K_Sampler, K_CFGScale,
           K_Seed, K_Size, K_ModelHash, K_Model, K_Version>>

\* variant of key_matches: the comparison is case-sensitive
key_matches_exact(mk, k) == mk = k

\* line 177: mk.lower() == k.lower()
key_matches(mk, k) == str_lower(mk) = str_lower(k)

\* lines 176-179: the first key of meta, in insertion order, that matches k; 0 if none
RECURSIVE first_matching_key(_, _, _)
first_matching_key(meta, k, j) ==
    IF j > Len(meta) THEN 0
    ELSE IF key_matches(meta[j].k, k) THEN j
    ELSE first_matching_key(meta, k, j + 1)

\* lines 174-180: [display |-> display_dict, meta |-> what is left in meta]
RECURSIVE order_loop(_, _, _)
order_loop(i, meta, display) ==
    IF i > Len(ORDER) THEN [display |-> dict_update(display, meta), meta |-> meta]
    ELSE LET j == first_matching_key(meta, ORDER[i], 1) IN
         IF j = 0 THEN order_loop(i + 1, meta, display)
         ELSE order_loop(i + 1, dict_pop(meta, meta[j].k), dict_set(display, ORDER[i], meta[j].v))

\* lines 167-169
pop_envelope(meta) == dict_pop(dict_pop(dict_pop(meta, K_RawSnippet), K_foundIn), K_format)

\* main, lines 156-185, on the dict extract_sd_meta returned
Present ==
    /\ pc = "returned"
    /\ IF dict_has(meta_info, K_error)
       THEN UNCHANGED <<meta_info, display_dict>>
       ELSE LET meta == pop_envelope(meta_info) IN
            IF Len(meta) > 0
            THEN LET o == order_loop(1, meta, <<>>) IN
                 /\ display_dict' = o.display
                 /\ meta_info' = o.meta
            ELSE /\ display_dict' = display_dict
                 /\ meta_info' = meta
    /\ pc' = "shown"
    /\ UNCHANGED <<raw_text, label_data, result, img, pillow_str, exif_str, exif_read>>

Next == Open \/ ReadExif \/ Select \/ Present

Spec == Init /\ [][Next]_vars

-----------------------------------------------------------------------------
(* main's ordering applied to one field map of at most MaxFields entries *)

MaxFields == 3

K_prompt == <<"p", "r", "o", "m", "p", "t">>
K_Foo == <<"F", "o", "o">>
K_Bar == <<"B", "a", "r">>

KeyPool == {ORDER[i] : i \in 1..Len(ORDER)} \cup {K_prompt, K_Foo, K_Bar}

\* no two keys of a field map are the same label: parse_labeled stores each
\* label under one spelling
KeyRuns ==
    {ks \in UNION {[1..n -> KeyPool] : n \in 0..MaxFields} :
        \A i, j \in 1..Len(ks) : i # j => str_lower(ks[i]) # str_lower(ks[j])}

\* every entry's value names the entry
FieldMaps == {[i \in 1..Len(ks) |-> [k |-> ks[i], v |-> <<"=">> \o ks[i]]] : ks \in KeyRuns}

InitPresent ==
    /\ pc = "returned"
    /\ \E fm \in FieldMaps :
         meta_info = <<[k |-> K_format, v |-> F_PNG], [k |-> K_foundIn, v |-> FOUND_Pillow]>>
                     \o fm \o <<[k |-> K_RawSnippet, v |-> <<"x">>]>>
    /\ img = NoImg
    /\ raw_text = <<>>
    /\ label_data = <<>>
    /\ result = <<>>
    /\ pillow_str = <<>>
    /\ exif_str = <<>>
    /\ exif_read = FALSE
    /\ display_dict = <<>>

NextPresent == Present

SpecPresent == InitPresent /\ [][NextPresent]_vars

-----------------------------------------------------------------------------
(* Properties of the parser, checked under SpecParse *)

Min(S) == CHOOSE x \in S : \A y \in S : x <= y
Max(S) == CHOOSE x \in S : \A y \in S : x >= y

\* d has a key equal to key case-insensitively
has_key_ci(d, key) == \E i \in 1..Len(d) : str_lower(d[i].k) = str_lower(key)

\* the fields of a returned map, RawSnippet apart
fields_of(r) == dict_pop(r, K_RawSnippet)

EX_cat == <<"P","r","o","m","p","t",":"," ","a"," ","c","a","t","\n",
            "N","e","g","a","t","i","v","e"," ","p","r","o","m","p","t",":"," ","b","l","u","r","r","y","\n",
            "S","t","e","p","s",":"," ","2","0">>

\* C1: whatever the text and whichever strategy produced the fields, the
\* map parse_sd_text returns has RawSnippet equal to the text itself,
\* untrimmed and unchanged.
Thm_C1_RawSnippetVerbatim ==
    pc = "parsed" =>
        /\ dict_has(result, K_RawSnippet)
        /\ dict_get(result, K_RawSnippet) = raw_text

\* C1 witness: a parsed text with whitespace at an end, kept in RawSnippet
Wit_C1_UntrimmedKept ==
    /\ pc = "parsed"
    /\ str_strip(raw_text) # raw_text
    /\ Len(result) > 1
    /\ dict_get(result, K_RawSnippet) = raw_text

\* C2: a text whose labeled extraction has a Prompt key (case-insensitively)
\* is not given to the heuristic: parse_sd_text returns the labeled
\* extraction's fields plus RawSnippet; the text of EX_cat yields
\* Prompt "a cat", Negative Prompt "blurry", Steps "20".
Claim_C2_HeuristicOnlyWithoutPrompt ==
    pc = "parsed" =>
        LET labeled == label_data IN
        /\ has_key_ci(labeled, K_Prompt) =>
               result = dict_set(labeled, K_RawSnippet, raw_text)
        /\ raw_text = EX_cat =>
               fields_of(result) =
                   <<[k |-> K_Prompt, v |-> <<"a", " ", "c", "a", "t">>],
                     [k |-> K_NegativePrompt, v |-> <<"b", "l", "u", "r", "r", "y">>],
                     [k |-> K_Steps, v |-> <<"2", "0">>]>>

\* C6: for the empty text parse_sd_text yields RawSnippet and no other key.
Claim_C6_EmptyTextOnlyRawSnippet ==
    (pc = "parsed" /\ raw_text = <<>>) =>
        dict_keys(result) = <<K_RawSnippet>>

\* C6, supporting: every returned map has a field besides RawSnippet, so
\* main never finds the field map empty.
Lemma_C6_AlwaysAField ==
    pc \in {"parsed", "returned"} /\ ~dict_has(meta_info, K_error) => Len(result) >= 2

\* the positions (1-based) where a label other than Prompt and a space begin
next_label_positions(t) ==
    LET lt == str_lower(t) IN
    {i \in 1..Len(t) :
        \E a \in 2..Len(LABELS) :
            re_literal_at(lt, i, str_lower(LABELS[a] \o <<" ">>))}

\* the shape C7 gives to the heuristic's fields for text t
heuristic_shape(t, fields) ==
    IF next_label_positions(t) = {}
    THEN fields = <<[k |-> K_Prompt, v |-> str_strip(t)]>>
    ELSE LET p == Min(next_label_positions(t)) - 1
             prompt == str_strip(slice_to(t, p))
         IN /\ prompt # <<>> => (dict_has(fields, K_Prompt) /\ dict_get(fields, K_Prompt) = prompt)
            /\ prompt = <<>> => ~dict_has(fields, K_Prompt)
            /\ dict_pop(fields, K_Prompt) = parse_labeled(str_strip(slice_from(t, p)))

\* C7: on every text the heuristic runs on, with p the earliest position of a
\* label other than Prompt followed by a space, Prompt is trim(text[0:p])
\* (present only if non-empty) and the other fields are the labeled
\* extraction of trim(text[p:]); with no such position the fields are exactly
\* {Prompt: trim(text)}.
Claim_C7_HeuristicShape ==
    (pc = "parsed" /\ no_prompt_key(label_data)) =>
        heuristic_shape(raw_text, fields_of(result))

\* C7, supporting: the shape holds of parse_no_prompt_label on every text
\* whose labeled extraction has no Prompt key, the texts the heuristic is
\* meant for.
Lemma_C7_ShapeWithoutPromptLabel ==
    (pc = "parsed" /\ ~has_key_ci(label_data, K_Prompt)) =>
        heuristic_shape(raw_text, parse_no_prompt_label(raw_text))

\* the positions where a value stops: a recognized label with its colon
\* begins, the bare word Model or Version begins, or the text ends
stop_positions(t) ==
    LET lt == str_lower(t) IN
    {q \in 1..(Len(t) + 1) :
        \/ q = Len(t) + 1
        \/ \E a \in 1..Len(LABELS) : re_literal_at(lt, q, str_lower(LABELS[a]))
        \/ re_literal_at(lt, q, str_lower(K_Model))
        \/ re_literal_at(lt, q, str_lower(K_Version))}

nearest_stop(stops, colon) == Min({q \in stops : q > colon})

match_key(t, m) == label_key(str_strip(m_label(t, m)))
match_value(t, m) == str_strip(m_value(t, m))

\* C9: the value of each match of "<Label>:" is the trimmed text from just
\* after the colon up to the nearest following position where a recognized
\* label with its colon begins, or the bare word Model or Version begins, or
\* the text ends; the value stored under a key is that of its last match.
Thm_C9_ValueUpToNearestStop ==
    pc = "parsed" =>
        LET ms == RGX_LABEL(raw_text)
            labeled == label_data
            stops == stop_positions(raw_text)
            claimed(m) == str_strip(SubSeq(raw_text, m.colon + 1, nearest_stop(stops, m.colon) - 1))
        IN \A i \in 1..Len(ms) :
            /\ match_value(raw_text, ms[i]) = claimed(ms[i])
            /\ (\A j \in (i + 1)..Len(ms) : match_key(raw_text, ms[j]) # match_key(raw_text, ms[i]))
                   => dict_get(labeled, match_key(raw_text, ms[i])) = claimed(ms[i])

\* C9 witness: a non-empty value cut at the bare word Model
Wit_C9_CutAtBareModel ==
    /\ pc = "parsed"
    /\ \E i \in 1..Len(RGX_LABEL(raw_text)) :
         LET m == RGX_LABEL(raw_text)[i]
             q == nearest_stop(stop_positions(raw_text), m.colon)
         IN /\ match_value(raw_text, m) # <<>>
            /\ re_literal_at(str_lower(raw_text), q, str_lower(K_Model))
            /\ ~re_literal_at(str_lower(raw_text), q, str_lower(K_Model \o <<":">>))
            /\ dict_get(label_data, match_key(raw_text, m)) = match_value(raw_text, m)

\* C10: a label matched more than once has one entry in the map
\* parse_labeled returns, at the place of its first match and with the value
\* of its last match; on the heuristic path a Prompt label matched in the
\* remainder replaces the recovered Prompt value, and Prompt stays first.
Thm_C10_FirstPlaceLastValue ==
    pc = "parsed" =>
        LET ms == RGX_LABEL(raw_text)
            labeled == label_data
            key(i) == match_key(raw_text, ms[i])
            first(k) == Min({i \in 1..Len(ms) : key(i) = k})
            last(k) == Max({i \in 1..Len(ms) : key(i) = k})
            p == search_next_label(str_lower(raw_text), 1)
            prompt == str_strip(slice_to(raw_text, p - 1))
            rest == parse_labeled(str_strip(slice_from(raw_text, p - 1)))
        IN /\ {labeled[a].k : a \in 1..Len(labeled)} = {key(i) : i \in 1..Len(ms)}
           /\ \A a, b \in 1..Len(labeled) :
                a < b => (labeled[a].k # labeled[b].k /\ first(labeled[a].k) < first(labeled[b].k))
           /\ \A a \in 1..Len(labeled) :
                labeled[a].v = match_value(raw_text, ms[last(labeled[a].k)])
           /\ (/\ no_prompt_key(labeled)
               /\ p # 0
               /\ prompt # <<>>
               /\ dict_has(rest, K_Prompt))
              => /\ result[1] = [k |-> K_Prompt, v |-> dict_get(rest, K_Prompt)]
                 /\ \A a \in 2..Len(result) : result[a].k # K_Prompt

\* C10 witness: a label matched twice with different values, another label
\* matched in between
Wit_C10_LabelMatchedTwice ==
    /\ pc = "parsed"
    /\ LET ms == RGX_LABEL(raw_text)
           labeled == label_data
       IN /\ Len(ms) >= 3
          /\ match_key(raw_text, ms[1]) = match_key(raw_text, ms[3])
          /\ match_key(raw_text, ms[1]) # match_key(raw_text, ms[2])
          /\ match_value(raw_text, ms[1]) # match_value(raw_text, ms[3])
          /\ Len(labeled) = 2
          /\ labeled[1] = [k |-> match_key(raw_text, ms[1]), v |-> match_value(raw_text, ms[3])]

-----------------------------------------------------------------------------
(* Properties of the locator, checked under Spec *)

is_webp(image) == image.decodes /\ image.format = F_WEBP

\* the source and text C3 names for an image that decodes
claimed_source(image) ==
    LET p == details_parameters(image) IN
    IF p # <<>> THEN [foundIn |-> FOUND_Pillow, text |-> p]
    ELSE IF image.format = F_WEBP /\ extract_exif_usercomment(image).value # <<>>
         THEN [foundIn |-> FOUND_Exif, text |-> extract_exif_usercomment(image).value]
         ELSE [foundIn |-> FOUND_Fallback, text |-> bytes_decode_ignore(image.bdata)]

count_key(d, key) == Cardinality({i \in 1..Len(d) : d[i].k = key})

\* C3: for an image that decodes extract_sd_meta selects one source:
\* EmbeddedInfo if the parameters property is non-empty, else ExifUserComment
\* if the format is WEBP and the EXIF UserComment string is non-empty, else
\* FallbackBytes, also with an empty fallback text; the text parsed is the
\* selected source's.
Thm_C3_SourcePrecedence ==
    (pc = "returned" /\ img.decodes) =>
        /\ ~dict_has(meta_info, K_error)
        /\ count_key(meta_info, K_foundIn) = 1
        /\ dict_get(meta_info, K_foundIn) = claimed_source(img).foundIn
        /\ raw_text = claimed_source(img).text
        /\ dict_get(meta_info, K_RawSnippet) = claimed_source(img).text

\* C3 witness: a WEBP image with empty parameters, an empty EXIF comment and
\* no decodable byte, for which Fallback is selected with the empty text
Wit_C3_EmptyFallbackSelected ==
    /\ pc = "returned"
    /\ is_webp(img)
    /\ dict_has(img.info, K_parameters)
    /\ dict_has(img.info, K_exif)
    /\ dict_get(meta_info, K_foundIn) = FOUND_Fallback
    /\ dict_get(meta_info, K_RawSnippet) = <<>>

\* C4: with a non-empty parameters property the locator stops there: the
\* EXIF UserComment is never read for that image.
Claim_C4_ExifNeverReadAfterParameters ==
    (pc \in {"located", "returned", "shown"} /\ pillow_str # <<>>) => ~exif_read

\* the failures C5 names: no EXIF block, a malformed EXIF block, a
\* UserComment that does not load
no_exif_block(image) == ~dict_has(image.info, K_exif)
exif_blob(image) == dict_get(image.info, K_exif)
malformed_exif(image) == ~no_exif_block(image) /\ ~exif_blob(image).load_ok
malformed_usercomment(image) ==
    /\ ~no_exif_block(image)
    /\ exif_blob(image).load_ok
    /\ exif_blob(image).uc.kind \in {"untagged", "not_bytes"}

exif_read_fails(image) ==
    no_exif_block(image) \/ malformed_exif(image) \/ malformed_usercomment(image)

\* C5 as stated: on a WEBP image without parameters every failure reading
\* the EXIF UserComment raises nothing and ends in FallbackBytes.
Claim_C5_AnyExifFailureFallsBack ==
    (/\ pc = "returned"
     /\ is_webp(img)
     /\ details_parameters(img) = <<>>
     /\ exif_read_fails(img))
    => /\ ~dict_has(meta_info, K_error)
       /\ dict_get(meta_info, K_foundIn) = FOUND_Fallback

\* a UserComment that does not load but whose bytes hold decodable text
undecoded_text(image) ==
    IF /\ ~no_exif_block(image)
       /\ exif_blob(image).load_ok
       /\ exif_blob(image).uc.kind = "untagged"
    THEN bytes_decode_ignore(exif_blob(image).uc.bytes)
    ELSE <<>>

\* C5, amended: on a WEBP image without parameters no failure reading the
\* EXIF UserComment raises; a missing or malformed EXIF block, and a
\* UserComment that neither loads nor holds decodable text, end in
\* FallbackBytes; a UserComment that does not load but holds decodable text
\* is selected as ExifUserComment with that text.
Thm_C5_ExifFailureRecovered ==
    (/\ pc = "returned"
     /\ is_webp(img)
     /\ details_parameters(img) = <<>>
     /\ exif_read_fails(img))
    => /\ ~dict_has(meta_info, K_error)
       /\ exif_read = ~no_exif_block(img)
       /\ IF undecoded_text(img) # <<>>
          THEN /\ dict_get(meta_info, K_foundIn) = FOUND_Exif
               /\ dict_get(meta_info, K_RawSnippet) = undecoded_text(img)
          ELSE /\ dict_get(meta_info, K_foundIn) = FOUND_Fallback
               /\ dict_get(meta_info, K_RawSnippet) = fallback_search(img.bdata)

\* C5 witness: a WEBP image without parameters whose EXIF block is
\* malformed, returned from Fallback
Wit_C5_MalformedExifFallsBack ==
    /\ pc = "returned"
    /\ is_webp(img)
    /\ details_parameters(img) = <<>>
    /\ malformed_exif(img)
    /\ exif_read
    /\ dict_get(meta_info, K_foundIn) = FOUND_Fallback
    /\ dict_get(meta_info, K_RawSnippet) # <<>>

-----------------------------------------------------------------------------
(* Properties of the ordering, checked under SpecPresent *)

is_canonical(key) == \E i \in 1..Len(ORDER) : str_lower(key) = str_lower(ORDER[i])

\* display is the presentation of the field map input that C8 describes
presented_in_order(input, display) ==
    LET canon == SelectSeq(ORDER, LAMBDA k : has_key_ci(input, k))
        other == SelectSeq(input, LAMBDA e : ~is_canonical(e.k))
        n == Len(canon)
    IN /\ Len(display) = Len(input)
       /\ Len(display) = n + Len(other)
       /\ \A i \in 1..n :
            /\ display[i].k = canon[i]
            /\ \E j \in 1..Len(input) :
                 /\ str_lower(input[j].k) = str_lower(canon[i])
                 /\ display[i].v = input[j].v
       /\ SubSeq(display, n + 1, Len(display)) = other
       /\ \A i, j \in 1..Len(display) : i # j => display[i].k # display[j].k

=============================================================================
